---- MODULE Spec2Model ----
(***************************************************************************)
(* Model of pg_httpd.c: the background worker pg_httpd_main, its two       *)
(* signal handlers, and the environment it talks to (the kernel's          *)
(* descriptor table, the listen backlog, the clients, the postmaster).     *)
(*                                                                         *)
(* The worker is modelled statement group by statement group: pc names     *)
(* the place in pg_httpd_main the worker is at, and the signal handlers    *)
(* and the clients may act between any two places.                         *)
(*                                                                         *)
(* Library semantics the model relies on:                                  *)
(*  - elog(ERROR, ...) does not return: the error is reported and the      *)
(*    background worker exits; the statement after it is never reached.    *)
(*    elog(WARNING, ...) logs and returns.                                 *)
(*  - socket() and accept() return the lowest descriptor that is free.     *)
(*  - select() replaces the set by the descriptors that are ready, fails   *)
(*    with EBADF when the set names a closed descriptor and with EINTR     *)
(*    when a signal handler ran while it waited.                           *)
(*  - WaitLatch with a timeout of 0 returns at once.                       *)
(***************************************************************************)
EXTENDS Integers, Sequences, FiniteSets, TLC

\* ------------------------------------------------------------------ bounds
\* Largest configured capacity explored (pg_httpd.max_sockets in 1..MaxSockets).
MaxSockets == 2
\* Most connections waiting on the listener at the same time.
MaxBacklog == 2
\* Number of connections that are ever stored in a slot in one run.
MaxStored == 3

\* ------------------------------------------------------- program constants
EmptySlot == 0
NoSock == -1
ContentLength == 12

\* Descriptors the kernel can hand out: standard input, the listener, one per
\* slot and the one that is being rejected.
Fds == 0 .. (MaxSockets + 2)

VARIABLES
    pc,                    \* place of the worker in pg_httpd_main
    pg_httpd_max_sockets,  \* the GUC, fixed at postmaster start
    got_sighup,
    got_sigterm,
    postmaster_alive,
    socket_listener,
    highsock,
    connectlist,
    socks,                 \* the fd_set
    readsocks,             \* what select returned
    sockfd,
    i,                     \* index of the servicing loop
    reply,                 \* reply.data, a sequence of characters
    fdtab,                 \* the kernel's descriptor table of the process
    unread,                \* connection descriptors with input or a hangup waiting
    backlog,               \* number of connections waiting on the listener
    nstored,               \* connections stored in a slot so far
    trace,                 \* what the current iteration did so far
    hup_unserved,          \* a SIGHUP came and no re-read has started since
    exitwhy                \* the call that ended the process

vars == <<pc, pg_httpd_max_sockets, got_sighup, got_sigterm, postmaster_alive,
          socket_listener, highsock, connectlist, socks, readsocks, sockfd, i,
          reply, fdtab, unread, backlog, nstored, trace, hup_unserved,
          exitwhy>>

workerVars == <<pc, socket_listener, highsock, connectlist, socks, readsocks,
                sockfd, i, reply, fdtab, nstored, trace, exitwhy>>
envVars == <<unread, backlog>>
sigVars == <<got_sighup, got_sigterm, postmaster_alive, pg_httpd_max_sockets,
             hup_unserved>>

\* ------------------------------------------------------------------ text
Digit(d) == <<"0", "1", "2", "3", "4", "5", "6", "7", "8", "9">>[d + 1]

RECURSIVE FormatInt(_)
\* "%d" of a non-negative int.
FormatInt(n) == IF n < 10 THEN <<Digit(n)>>
                ELSE FormatInt(n \div 10) \o <<Digit(n % 10)>>

StatusLine == <<"H", "T", "T", "P", "/", "1", ".", "0", " ", "2", "0", "0",
                " ", "O", "K", "\r", "\n">>
HeaderName == <<"C", "o", "n", "t", "e", "n", "t", "-", "L", "e", "n", "g",
                "t", "h", ":", " ">>
HeaderEnd == <<"\r", "\n", "\r", "\n">>
Body == <<"H", "e", "l", "l", "o", " ", "w", "o", "r", "l", "d", "!">>

\* As FormatReply, but the format string ends with a line break after the body.
FormatReplyLineBreak(content_length) ==
    StatusLine \o HeaderName \o FormatInt(content_length) \o HeaderEnd \o Body
        \o <<"\r", "\n">>

\* The text appendStringInfo formats from its format string and content_length.
FormatReply(content_length) ==
    StatusLine \o HeaderName \o FormatInt(content_length) \o HeaderEnd \o Body

\* appendStringInfo(&reply, fmt, content_length): the text is added at the end.
appendStringInfo(data, content_length) == data \o FormatReply(content_length)

\* ------------------------------------------------------------------ kernel
IsOpen(fd) == fd \in Fds /\ fdtab[fd] # "free"
IsConn(fd) == fd \in Fds /\ fdtab[fd] = "conn"

\* The descriptor socket() or accept() returns.
LowestFree == CHOOSE fd \in Fds :
                  /\ fdtab[fd] = "free"
                  /\ \A g \in Fds : g < fd => fdtab[g] # "free"

\* What select() reports as readable.
Readable(fd) ==
    \/ fd \in Fds /\ fdtab[fd] = "listener" /\ backlog > 0
    \/ IsConn(fd) /\ fd \in unread

\* close(fd): the descriptor becomes free; closing a closed one changes nothing.
CloseFd(tab, fd) == IF fd \in Fds THEN [tab EXCEPT ![fd] = "free"] ELSE tab

Ev(op, slot, fd, arg, data) ==
    [op |-> op, slot |-> slot, fd |-> fd, arg |-> arg, data |-> data]

Slots == 0 .. (pg_httpd_max_sockets - 1)

\* The lowest index of an empty slot, or pg_httpd_max_sockets when there is none:
\* where the loop of lines 224-229 stores sockfd.
FirstEmpty(list) ==
    IF \E s \in Slots : list[s] = EmptySlot
    THEN CHOOSE s \in Slots : /\ list[s] = EmptySlot
                              /\ \A t \in Slots : t < s => list[t] # EmptySlot
    ELSE pg_httpd_max_sockets

SetMax(S) == CHOOSE x \in S : \A y \in S : y <= x

\* The listener accepts connections: listen() has succeeded and the
\* descriptor is still open.
Listening ==
    /\ pc \notin {"socket", "bind", "listen", "exited"}
    /\ socket_listener \in Fds
    /\ fdtab[socket_listener] = "listener"

\* ------------------------------------------------------------------ Init
Init ==
    /\ pc = "socket"
    /\ pg_httpd_max_sockets \in 1 .. MaxSockets
    /\ got_sighup = FALSE
    /\ got_sigterm = FALSE
    /\ postmaster_alive = TRUE
    /\ socket_listener = NoSock
    /\ highsock = NoSock
    \* palloc does not clear the memory: the table starts with whatever it held.
    /\ \E junk \in {EmptySlot, NoSock} :
           connectlist = [s \in 0 .. (pg_httpd_max_sockets - 1) |-> junk]
    /\ socks = {}
    /\ readsocks = 0
    /\ sockfd = NoSock
    /\ i = 0
    /\ reply = <<>>
    \* Descriptor 0 is open (standard input) or not when the worker starts.
    /\ \E stdin \in {"free", "other"} :
           fdtab = [fd \in Fds |-> IF fd = 0 THEN stdin ELSE "free"]
    /\ unread = {}
    /\ backlog = 0
    /\ nstored = 0
    /\ trace = <<>>
    /\ hup_unserved = FALSE
    /\ exitwhy = "none"

\* elog(ERROR, msg): the message is logged and the process ends.
ElogError(msg, why) ==
    /\ trace' = Append(trace, Ev("elog_ERROR", NoSock, NoSock, msg, <<>>))
    /\ pc' = "exited"
    /\ exitwhy' = why

\* proc_exit(1)
ProcExit(why) ==
    /\ pc' = "exited"
    /\ exitwhy' = why

\* ------------------------------------------------------------------ startup
\* lines 112-117
StartupSocket ==
    /\ pc = "socket"
    /\ \/ /\ socket_listener' = LowestFree
          /\ fdtab' = [fdtab EXCEPT ![LowestFree] = "listener"]
          /\ pc' = "bind"
          /\ UNCHANGED <<trace, exitwhy>>
       \/ /\ socket_listener' = NoSock
          /\ ElogError("socket() error", "socket")
          /\ UNCHANGED fdtab
    /\ UNCHANGED <<highsock, connectlist, socks, readsocks, sockfd, i, reply,
                   nstored>>
    /\ UNCHANGED <<envVars, sigVars>>

\* As StartupBind, but a failure is logged and the worker goes on.
StartupBindGoesOn ==
    /\ pc = "bind"
    /\ pc' = "listen"
    /\ \/ UNCHANGED trace
       \/ trace' = Append(trace, Ev("elog_WARNING", NoSock, NoSock, "bind() error", <<>>))
    /\ UNCHANGED <<socket_listener, fdtab, highsock, connectlist, socks,
                   readsocks, sockfd, i, reply, nstored, exitwhy>>
    /\ UNCHANGED <<envVars, sigVars>>

\* lines 125-130
StartupBind ==
    /\ pc = "bind"
    /\ \/ /\ pc' = "listen"
          /\ UNCHANGED <<trace, exitwhy>>
       \/ ElogError("bind() error", "bind")
    /\ UNCHANGED <<socket_listener, fdtab, highsock, connectlist, socks,
                   readsocks, sockfd, i, reply, nstored>>
    /\ UNCHANGED <<envVars, sigVars>>

\* lines 132-136
StartupListen ==
    /\ pc = "listen"
    /\ \/ /\ pc' = "init"
          /\ UNCHANGED <<trace, exitwhy>>
       \/ ElogError("listen() error", "listen")
    /\ UNCHANGED <<socket_listener, fdtab, highsock, connectlist, socks,
                   readsocks, sockfd, i, reply, nstored>>
    /\ UNCHANGED <<envVars, sigVars>>

\* lines 138-145
InitTable ==
    /\ pc = "init"
    /\ highsock' = socket_listener
    /\ connectlist' = [s \in Slots |-> EmptySlot]
    /\ i' = pg_httpd_max_sockets
    /\ reply' = <<>>
    /\ pc' = "loop_test"
    /\ UNCHANGED <<socket_listener, fdtab, socks, readsocks, sockfd, nstored,
                   trace, exitwhy>>
    /\ UNCHANGED <<envVars, sigVars>>

\* ------------------------------------------------------------------ main loop
\* As LoopTest, but the flag is not looked at.
LoopTestForever ==
    /\ pc = "loop_test"
    /\ pc' = "wait_latch"
    /\ UNCHANGED <<socket_listener, fdtab, highsock, connectlist, socks,
                   readsocks, sockfd, i, reply, nstored, trace, exitwhy>>
    /\ UNCHANGED <<envVars, sigVars>>

\* line 146, and line 260 when the loop is left
LoopTest ==
    /\ pc = "loop_test"
    /\ IF got_sigterm
       THEN ProcExit("sigterm")
       ELSE pc' = "wait_latch" /\ UNCHANGED exitwhy
    /\ UNCHANGED <<socket_listener, fdtab, highsock, connectlist, socks,
                   readsocks, sockfd, i, reply, nstored, trace>>
    /\ UNCHANGED <<envVars, sigVars>>

\* lines 167-174
WaitLatch ==
    /\ pc = "wait_latch"
    /\ IF ~postmaster_alive
       THEN ProcExit("postmaster_death")
       ELSE pc' = "sighup_test" /\ UNCHANGED exitwhy
    /\ UNCHANGED <<socket_listener, fdtab, highsock, connectlist, socks,
                   readsocks, sockfd, i, reply, nstored, trace>>
    /\ UNCHANGED <<envVars, sigVars>>

\* line 179
SighupTest ==
    /\ pc = "sighup_test"
    /\ pc' = IF got_sighup THEN "sighup_clear" ELSE "build"
    /\ UNCHANGED <<socket_listener, fdtab, highsock, connectlist, socks,
                   readsocks, sockfd, i, reply, nstored, trace, exitwhy>>
    /\ UNCHANGED <<envVars, sigVars>>

\* line 181
SighupClear ==
    /\ pc = "sighup_clear"
    /\ got_sighup' = FALSE
    /\ pc' = "reload"
    /\ UNCHANGED <<socket_listener, fdtab, highsock, connectlist, socks,
                   readsocks, sockfd, i, reply, nstored, trace, exitwhy>>
    /\ UNCHANGED <<envVars, got_sigterm, postmaster_alive, pg_httpd_max_sockets,
                   hup_unserved>>

\* line 182. The three GUCs are PGC_POSTMASTER: a reload does not change them.
ProcessConfigFile ==
    /\ pc = "reload"
    /\ trace' = Append(trace, Ev("reload", NoSock, NoSock, "PGC_SIGHUP", <<>>))
    /\ hup_unserved' = FALSE
    /\ pc' = "build"
    /\ UNCHANGED <<socket_listener, fdtab, highsock, connectlist, socks,
                   readsocks, sockfd, i, reply, nstored, exitwhy>>
    /\ UNCHANGED <<envVars, got_sighup, got_sigterm, postmaster_alive,
                   pg_httpd_max_sockets>>

\* lines 185-196
BuildSet ==
    /\ pc = "build"
    /\ LET occupied == {connectlist[s] : s \in {t \in Slots : connectlist[t] # EmptySlot}}
       IN /\ socks' = {socket_listener} \cup occupied
          /\ highsock' = SetMax(occupied \cup {highsock})
    /\ i' = pg_httpd_max_sockets
    /\ pc' = "select"
    /\ UNCHANGED <<socket_listener, fdtab, connectlist, readsocks, sockfd,
                   reply, nstored, trace, exitwhy>>
    /\ UNCHANGED <<envVars, sigVars>>

\* As Select, but a timeout is not told from readiness and leaves the set as
\* it was built.
SelectNoIdleCheck ==
    /\ pc = "select"
    /\ IF \E fd \in socks : ~IsOpen(fd)
       THEN /\ readsocks' = -1
            /\ ElogError("select", "select")
            /\ UNCHANGED socks
       ELSE LET ready == {fd \in socks : Readable(fd)}
            IN /\ socks' = IF ready = {} THEN socks ELSE ready
               /\ readsocks' = Cardinality(ready)
               /\ pc' = "dispatch"
               /\ UNCHANGED <<trace, exitwhy>>
    /\ UNCHANGED <<socket_listener, fdtab, highsock, connectlist, sockfd, i,
                   reply, nstored>>
    /\ UNCHANGED <<envVars, sigVars>>

\* lines 198-210: select returns normally, or fails with EBADF
Select ==
    /\ pc = "select"
    /\ IF \E fd \in socks : ~IsOpen(fd)
       THEN /\ readsocks' = -1
            /\ ElogError("select", "select")
            /\ UNCHANGED socks
       ELSE LET ready == {fd \in socks : Readable(fd)}
            IN /\ socks' = ready
               /\ readsocks' = Cardinality(ready)
               /\ pc' = IF ready = {} THEN "iter_end" ELSE "dispatch"
               /\ UNCHANGED <<trace, exitwhy>>
    /\ UNCHANGED <<socket_listener, fdtab, highsock, connectlist, sockfd, i,
                   reply, nstored>>
    /\ UNCHANGED <<envVars, sigVars>>

\* lines 200-207 with lines 52-75: a signal is delivered while select waits;
\* the handler runs and select fails with EINTR.
SelectInterrupted ==
    /\ pc = "select"
    /\ \/ got_sighup' = TRUE /\ hup_unserved' = TRUE /\ UNCHANGED got_sigterm
       \/ got_sigterm' = TRUE /\ UNCHANGED <<got_sighup, hup_unserved>>
    /\ readsocks' = -1
    /\ ElogError("select", "select")
    /\ UNCHANGED <<socket_listener, fdtab, highsock, connectlist, socks, sockfd,
                   i, reply, nstored>>
    /\ UNCHANGED <<envVars, postmaster_alive, pg_httpd_max_sockets>>

\* line 213 false: the listener is not in the set select returned
ListenerNotReady ==
    /\ pc = "dispatch"
    /\ socket_listener \notin socks
    /\ i' = 0
    /\ pc' = "service"
    /\ UNCHANGED <<socket_listener, fdtab, highsock, connectlist, socks,
                   readsocks, sockfd, reply, nstored, trace, exitwhy>>
    /\ UNCHANGED <<envVars, sigVars>>

\* As AcceptOk, but every waiting connection is taken off the listener.
AcceptOkDrain ==
    /\ pc = "dispatch"
    /\ socket_listener \in socks
    /\ backlog > 0
    /\ LET fd == LowestFree
       IN /\ sockfd' = fd
          /\ fdtab' = [fdtab EXCEPT ![fd] = "conn"]
          /\ \E early \in BOOLEAN :
                 unread' = IF early THEN unread \cup {fd} ELSE unread
          /\ trace' = Append(trace, Ev("accept", NoSock, fd, "", <<>>))
    /\ backlog' = 0
    /\ pc' = "store"
    /\ UNCHANGED <<socket_listener, highsock, connectlist, socks, readsocks, i,
                   reply, nstored, exitwhy>>
    /\ UNCHANGED sigVars

\* lines 213-217: accept returns a new descriptor for the first waiting
\* connection, whose client has sent something already or not
AcceptOk ==
    /\ pc = "dispatch"
    /\ socket_listener \in socks
    /\ backlog > 0
    /\ LET fd == LowestFree
       IN /\ sockfd' = fd
          /\ fdtab' = [fdtab EXCEPT ![fd] = "conn"]
          /\ \E early \in BOOLEAN :
                 unread' = IF early THEN unread \cup {fd} ELSE unread
          /\ trace' = Append(trace, Ev("accept", NoSock, fd, "", <<>>))
    /\ backlog' = backlog - 1
    /\ pc' = "store"
    /\ UNCHANGED <<socket_listener, highsock, connectlist, socks, readsocks, i,
                   reply, nstored, exitwhy>>
    /\ UNCHANGED sigVars

\* lines 217-222, errno = EAGAIN: nothing waits on the listener any more
AcceptWouldBlock ==
    /\ pc = "dispatch"
    /\ socket_listener \in socks
    /\ backlog = 0
    /\ sockfd' = NoSock
    /\ trace' = Append(trace, Ev("accept", NoSock, NoSock, "EAGAIN", <<>>))
    /\ pc' = "iter_end"
    /\ UNCHANGED <<socket_listener, fdtab, highsock, connectlist, socks,
                   readsocks, i, reply, nstored, exitwhy>>
    /\ UNCHANGED <<envVars, sigVars>>

\* lines 217-222, errno # EAGAIN: the first waiting connection was aborted
\* by its client, and accept reports it
AcceptError ==
    /\ pc = "dispatch"
    /\ socket_listener \in socks
    /\ backlog > 0
    /\ sockfd' = NoSock
    /\ backlog' = backlog - 1
    /\ trace' = trace \o <<Ev("accept", NoSock, NoSock, "ECONNABORTED", <<>>),
                           Ev("elog_WARNING", NoSock, NoSock, "accept() error", <<>>)>>
    /\ pc' = "iter_end"
    /\ UNCHANGED <<socket_listener, fdtab, highsock, connectlist, socks,
                   readsocks, i, reply, nstored, exitwhy>>
    /\ UNCHANGED <<unread, sigVars>>

\* As StoreInSlot, but the loop does not stop at the first empty slot.
StoreInAllEmpty ==
    /\ FirstEmpty(connectlist) < pg_httpd_max_sockets
    /\ connectlist' = [s \in Slots |-> IF connectlist[s] = EmptySlot THEN sockfd
                                       ELSE connectlist[s]]
    /\ trace' = Append(trace, Ev("store", FirstEmpty(connectlist), sockfd, "", <<>>))
    /\ sockfd' = NoSock
    /\ nstored' = nstored + 1
    /\ i' = 0
    /\ pc' = "service"
    /\ UNCHANGED <<fdtab, unread>>

\* As StoreInSlot, but the empty slot of highest index is taken.
StoreInLastEmpty ==
    /\ FirstEmpty(connectlist) < pg_httpd_max_sockets
    /\ LET last == SetMax({s \in Slots : connectlist[s] = EmptySlot})
       IN /\ connectlist' = [connectlist EXCEPT ![last] = sockfd]
          /\ trace' = Append(trace, Ev("store", last, sockfd, "", <<>>))
    /\ sockfd' = NoSock
    /\ nstored' = nstored + 1
    /\ i' = 0
    /\ pc' = "service"
    /\ UNCHANGED <<fdtab, unread>>

\* lines 224-229: sockfd goes into the first empty slot
StoreInSlot ==
    /\ FirstEmpty(connectlist) < pg_httpd_max_sockets
    /\ connectlist' = [connectlist EXCEPT ![FirstEmpty(connectlist)] = sockfd]
    /\ trace' = Append(trace, Ev("store", FirstEmpty(connectlist), sockfd, "", <<>>))
    /\ sockfd' = NoSock
    /\ nstored' = nstored + 1
    /\ i' = 0
    /\ pc' = "service"
    /\ UNCHANGED <<fdtab, unread>>

\* As BusyReject, but the rejected descriptor is left open.
BusyRejectNoClose ==
    /\ FirstEmpty(connectlist) = pg_httpd_max_sockets
    /\ trace' = Append(trace, Ev("elog_WARNING", NoSock, NoSock, "server too busy", <<>>))
    /\ i' = pg_httpd_max_sockets
    /\ pc' = "iter_end"
    /\ UNCHANGED <<connectlist, sockfd, nstored, fdtab, unread>>

\* As BusyReject, but the new descriptor takes the place of the last slot's.
BusyRejectEvict ==
    /\ FirstEmpty(connectlist) = pg_httpd_max_sockets
    /\ trace' = trace \o <<Ev("elog_WARNING", NoSock, NoSock, "server too busy", <<>>),
                           Ev("close", NoSock, connectlist[pg_httpd_max_sockets - 1], "", <<>>)>>
    /\ fdtab' = CloseFd(fdtab, connectlist[pg_httpd_max_sockets - 1])
    /\ unread' = unread \ {connectlist[pg_httpd_max_sockets - 1]}
    /\ connectlist' = [connectlist EXCEPT ![pg_httpd_max_sockets - 1] = sockfd]
    /\ i' = pg_httpd_max_sockets
    /\ pc' = "iter_end"
    /\ UNCHANGED <<sockfd, nstored>>

\* lines 231-236: no slot is empty
BusyReject ==
    /\ FirstEmpty(connectlist) = pg_httpd_max_sockets
    /\ trace' = trace \o <<Ev("elog_WARNING", NoSock, NoSock, "server too busy", <<>>),
                           Ev("close", NoSock, sockfd, "", <<>>)>>
    /\ fdtab' = CloseFd(fdtab, sockfd)
    /\ unread' = unread \ {sockfd}
    /\ i' = pg_httpd_max_sockets
    /\ pc' = "iter_end"
    /\ UNCHANGED <<connectlist, sockfd, nstored>>

\* lines 224-236
Store ==
    /\ pc = "store"
    /\ \/ StoreInSlot
       \/ BusyReject
    /\ UNCHANGED <<socket_listener, highsock, socks, readsocks, reply, exitwhy>>
    /\ UNCHANGED <<backlog, sigVars>>

\* What recv and send return on a connection, by what its client did: it sent
\* a request, it closed its end, or it reset the connection.
IoOutcomes == {<<"data", "sent">>, <<"zero", "sent">>, <<"error", "error">>}

\* What recv and send return on a descriptor that is no connection.
NotConnOutcome == <<"notconn", "notconn">>

\* As SlotIsSet, but readiness is asked of the descriptor when its slot is
\* reached, not taken from the set select returned.
SlotIsSetLive == i < pg_httpd_max_sockets /\ Readable(connectlist[i])

\* line 241
SlotIsSet == i < pg_httpd_max_sockets /\ connectlist[i] \in socks

\* As ServiceReady, but a recv that fails keeps the connection for a retry.
ServiceReadyRetry ==
    /\ SlotIsSet
    /\ LET fd == connectlist[i]
           data == appendStringInfo(reply, ContentLength)
       IN \E io \in IF IsConn(fd) THEN IoOutcomes ELSE {NotConnOutcome} :
              IF io[1] = "error"
              THEN /\ trace' = Append(trace, Ev("recv", i, fd, io[1], <<>>))
                   /\ UNCHANGED <<reply, fdtab, unread, connectlist>>
              ELSE /\ reply' = data
                   /\ trace' = trace \o <<Ev("recv", i, fd, io[1], <<>>),
                                           Ev("send", i, fd, io[2], data),
                                           Ev("close", i, fd, "", <<>>)>>
                   /\ fdtab' = CloseFd(fdtab, fd)
                   /\ unread' = unread \ {fd}
                   /\ connectlist' = [connectlist EXCEPT ![i] = EmptySlot]
    /\ i' = i + 1
    /\ UNCHANGED pc

\* lines 243-254: recv, appendStringInfo, send, close, clear the slot
ServiceReady ==
    /\ SlotIsSet
    /\ LET fd == connectlist[i]
           data == appendStringInfo(reply, ContentLength)
       IN /\ reply' = data
          /\ \E io \in IF IsConn(fd) THEN IoOutcomes ELSE {NotConnOutcome} :
                 trace' = trace \o <<Ev("recv", i, fd, io[1], <<>>),
                                     Ev("send", i, fd, io[2], data),
                                     Ev("close", i, fd, "", <<>>)>>
          /\ fdtab' = CloseFd(fdtab, fd)
          /\ unread' = unread \ {fd}
    /\ connectlist' = [connectlist EXCEPT ![i] = EmptySlot]
    /\ i' = i + 1
    /\ UNCHANGED pc

\* As ServiceSkip, but the slot is cleared whether it was serviced or not.
ServiceSkipClears ==
    /\ i < pg_httpd_max_sockets
    /\ ~SlotIsSet
    /\ connectlist' = [connectlist EXCEPT ![i] = EmptySlot]
    /\ i' = i + 1
    /\ UNCHANGED <<pc, reply, unread, fdtab, trace>>

\* line 241 false
ServiceSkip ==
    /\ i < pg_httpd_max_sockets
    /\ ~SlotIsSet
    /\ i' = i + 1
    /\ UNCHANGED <<pc, reply, unread, fdtab, trace, connectlist>>

\* As ServiceDone, but the listener is tried again while connections wait.
ServiceDoneAcceptAgain ==
    /\ i >= pg_httpd_max_sockets
    /\ pc' = IF socket_listener \in socks /\ backlog > 0 THEN "dispatch" ELSE "iter_end"
    /\ UNCHANGED <<i, reply, unread, fdtab, trace, connectlist>>

\* line 239 false: the loop is over
ServiceDone ==
    /\ i >= pg_httpd_max_sockets
    /\ pc' = "iter_end"
    /\ UNCHANGED <<i, reply, unread, fdtab, trace, connectlist>>

\* lines 239-256: one round of the for loop
ServiceSlot ==
    /\ pc = "service"
    /\ \/ ServiceReady
       \/ ServiceSkip
       \/ ServiceDone
    /\ UNCHANGED <<socket_listener, highsock, socks, readsocks, sockfd, nstored,
                   exitwhy>>
    /\ UNCHANGED <<backlog, sigVars>>

\* lines 206, 210, 221, 235, 257: back to the test of the while
LoopBack ==
    /\ pc = "iter_end"
    /\ pc' = "loop_test"
    /\ sockfd' = NoSock
    /\ trace' = <<>>
    /\ UNCHANGED <<socket_listener, fdtab, highsock, connectlist, socks,
                   readsocks, i, reply, nstored, exitwhy>>
    /\ UNCHANGED <<envVars, sigVars>>

\* ------------------------------------------------------------------ signals
\* lines 52-62
pg_httpd_sigterm ==
    /\ pc # "exited"
    /\ got_sigterm' = TRUE
    /\ UNCHANGED <<got_sighup, postmaster_alive, pg_httpd_max_sockets,
                   hup_unserved>>
    /\ UNCHANGED <<workerVars, envVars>>

\* lines 69-75
pg_httpd_sighup ==
    /\ pc # "exited"
    /\ got_sighup' = TRUE
    /\ hup_unserved' = TRUE
    /\ UNCHANGED <<got_sigterm, postmaster_alive, pg_httpd_max_sockets>>
    /\ UNCHANGED <<workerVars, envVars>>

\* The postmaster dies: WaitLatch reports WL_POSTMASTER_DEATH from then on.
PostmasterDies ==
    /\ pc # "exited"
    /\ postmaster_alive
    /\ postmaster_alive' = FALSE
    /\ UNCHANGED <<got_sighup, got_sigterm, pg_httpd_max_sockets, hup_unserved>>
    /\ UNCHANGED <<workerVars, envVars>>

\* ------------------------------------------------------------------ clients
\* A client connects: its connection waits on the listener.
ClientConnect ==
    /\ Listening
    /\ backlog < MaxBacklog
    /\ nstored + backlog < MaxStored
    /\ backlog' = backlog + 1
    /\ UNCHANGED <<unread, workerVars, sigVars>>

\* The client of an accepted connection sends a request, closes its end, or
\* resets: the descriptor becomes readable.
ClientSend ==
    /\ pc # "exited"
    /\ \E fd \in Fds :
           /\ IsConn(fd)
           /\ fd \notin unread
           /\ unread' = unread \cup {fd}
    /\ UNCHANGED <<backlog, workerVars, sigVars>>

\* A waiting client gives up before it is accepted and the kernel drops its
\* connection from the backlog.
ClientAbort ==
    /\ pc # "exited"
    /\ backlog > 0
    /\ backlog' = backlog - 1
    /\ UNCHANGED <<unread, workerVars, sigVars>>

\* ------------------------------------------------------------------ Next
Worker ==
    \/ StartupSocket
    \/ StartupBind
    \/ StartupListen
    \/ InitTable
    \/ LoopTest
    \/ WaitLatch
    \/ SighupTest
    \/ SighupClear
    \/ ProcessConfigFile
    \/ BuildSet
    \/ Select
    \/ SelectInterrupted
    \/ ListenerNotReady
    \/ AcceptOk
    \/ AcceptWouldBlock
    \/ AcceptError
    \/ Store
    \/ ServiceSlot
    \/ LoopBack

Environment ==
    \/ pg_httpd_sigterm
    \/ pg_httpd_sighup
    \/ PostmasterDies
    \/ ClientConnect
    \/ ClientSend
    \/ ClientAbort

Next == Worker \/ Environment

Spec == Init /\ [][Next]_vars

\* The worker is scheduled: whatever it can do next, it eventually does.
FairSpec == Spec /\ WF_vars(Worker)

\* ------------------------------------------------------------------ claims
OpenConns == {fd \in Fds : fdtab[fd] = "conn"}
Occupied == {s \in Slots : connectlist[s] # EmptySlot}
TraceIdx == 1 .. Len(trace)
Logged(msg) == \E k \in TraceIdx : trace[k].arg = msg
FixedResponse == FormatReply(ContentLength)
StartupMessages == {"socket() error", "bind() error", "listen() error"}
StartupExits == {"socket", "bind", "listen"}

\* C1: whatever the capacity and whatever happened so far, the client
\* connections the worker holds open (all but the one just accepted and on its
\* way to a slot or to its close) are at most pg_httpd_max_sockets.
C1_AtMostN == Cardinality(OpenConns \ {sockfd}) <= pg_httpd_max_sockets

\* The table is full at the largest capacity and a further connection was just
\* turned away.
C1_Witness ==
    /\ pc = "iter_end"
    /\ pg_httpd_max_sockets = MaxSockets
    /\ Cardinality(OpenConns) = pg_httpd_max_sockets
    /\ Logged("server too busy")

\* C2: every send to a serviced connection hands over exactly one copy of the
\* fixed response, however many connections were serviced before.
C2_OneCopyEachTime ==
    \A k \in TraceIdx :
        (trace[k].op = "send" /\ trace[k].arg \in {"sent", "error"})
            => trace[k].data = FixedResponse

\* C3: busy rejection. The step that finds no empty slot for the accepted
\* descriptor closes it, writes nothing to it, logs "server too busy" and leaves
\* every slot as it was.
C3_BusyRejection ==
    [][(pc = "store" /\ pc' # "store" /\ Occupied = Slots)
          => /\ connectlist' = connectlist
             /\ fdtab' = [fdtab EXCEPT ![sockfd] = "free"]
             /\ reply' = reply
             /\ \E k \in 1 .. Len(trace') :
                    trace'[k].op = "elog_WARNING" /\ trace'[k].arg = "server too busy"
             /\ \E k \in 1 .. Len(trace') :
                    trace'[k].op = "close" /\ trace'[k].fd = sockfd
             /\ \A k \in 1 .. Len(trace') :
                    trace'[k].op = "send" => trace'[k].fd # sockfd]_vars

\* A connection was accepted and turned away while each slot held another one.
C3_Witness ==
    /\ pc = "iter_end"
    /\ Logged("server too busy")
    /\ Occupied = Slots
    /\ \A s \in Slots : IsConn(connectlist[s])

\* C4: at the end of an iteration whose select reported something ready, no
\* occupied slot is left whose descriptor select reported ready.
C4_ReadyServicedSameIteration ==
    (pc = "iter_end" /\ readsocks > 0)
        => \A s \in Slots : ~(connectlist[s] # EmptySlot /\ connectlist[s] \in socks)

\* C5: an occupied slot whose client has sent data or closed its end is
\* eventually serviced and empty again, as long as the worker runs.
C5_NoSlotLeak ==
    \A fd \in Fds :
        (pc \notin {"socket", "bind", "listen", "init", "exited"}
           /\ fd # EmptySlot /\ fd \in unread /\ \E s \in Slots : connectlist[s] = fd)
        ~> (pc = "exited" \/ \A s \in Slots : connectlist[s] # fd)

\* C6: the servicing of a ready occupied slot ends with the reply handed to
\* send, the connection closed and the slot empty, whatever recv returned; it
\* logs nothing and does not end the loop.
C6_ServiceAlwaysCompletes ==
    [][(pc = "service" /\ i' # i /\ i \in Slots
           /\ connectlist[i] # EmptySlot /\ connectlist[i] \in socks)
          => /\ connectlist'[i] = EmptySlot
             /\ fdtab'[connectlist[i]] = "free"
             /\ pc' = "service"
             /\ Len(trace') = Len(trace) + 3
             /\ trace'[Len(trace') - 2].op = "recv"
             /\ trace'[Len(trace') - 1].op = "send"
             /\ trace'[Len(trace') - 1].fd = connectlist[i]
             /\ Len(trace'[Len(trace') - 1].data) >= Len(FixedResponse)
             /\ SubSeq(trace'[Len(trace') - 1].data,
                       Len(trace'[Len(trace') - 1].data) - Len(FixedResponse) + 1,
                       Len(trace'[Len(trace') - 1].data)) = FixedResponse
             /\ trace'[Len(trace')].op = "close"
             /\ trace'[Len(trace')].fd = connectlist[i]]_vars

\* A slot was serviced whose recv failed: it is empty and its descriptor closed.
C6_Witness ==
    \E k \in TraceIdx :
        /\ trace[k].op = "recv"
        /\ trace[k].arg = "error"
        /\ trace[k].fd # EmptySlot
        /\ connectlist[trace[k].slot] = EmptySlot
        /\ ~IsOpen(trace[k].fd)

\* C7: an iteration whose select timed out did no accept, recv, send or close,
\* and the timeout itself left the slots, the descriptors and the listener as
\* they were.
C7_IdleIsNoOp ==
    /\ []((pc = "iter_end" /\ readsocks = 0)
            => \A k \in TraceIdx : trace[k].op = "reload")
    /\ [][(pc = "select" /\ pc' = "iter_end")
            => UNCHANGED <<connectlist, fdtab, socket_listener, highsock,
                           reply, unread, backlog>>]_vars

\* An iteration timed out while a slot was occupied.
C7_Witness == pc = "iter_end" /\ readsocks = 0 /\ Occupied # {} /\ trace = <<>>

\* C8: once the listener is set up the process ends only because the loop saw
\* got_sigterm or WaitLatch reported the postmaster's death.
C8_OnlyTermOrDeathEndsLoop ==
    (pc = "exited" /\ exitwhy \notin StartupExits)
        => exitwhy \in {"sigterm", "postmaster_death"}

\* C9: once got_sigterm is set the worker eventually exits, and the test of
\* the loop, finding it set, starts no further iteration.
C9_Terminate ==
    /\ got_sigterm ~> (pc = "exited")
    /\ [][(pc = "loop_test" /\ got_sigterm /\ pc' # pc) => pc' = "exited"]_vars

\* The worker left the loop on got_sigterm without ever having had traffic.
C9_Witness ==
    pc = "exited" /\ exitwhy = "sigterm" /\ nstored = 0 /\ backlog = 0

\* C10: a failure of socket, bind or listen ends the process with no
\* connection ever accepted and no slot ever filled, and the process never ends
\* on one of them after the table is set up.
C10_StartupFailure ==
    /\ []((\E m \in StartupMessages : Logged(m))
            => /\ pc = "exited"
               /\ exitwhy \in StartupExits
               /\ nstored = 0
               /\ backlog = 0
               /\ OpenConns = {})
    /\ [][(exitwhy' \in StartupExits) => (pc \in {"socket", "bind", "listen", "exited"})]_vars

\* bind failed and the process is gone.
C10_Witness == pc = "exited" /\ exitwhy = "bind" /\ Logged("bind() error")

\* Ways the process ends that the worker is meant to have: a startup failure,
\* the terminate signal, the death of the postmaster.
MeantExits == StartupExits \cup {"sigterm", "postmaster_death"}

\* C11: a SIGHUP delivered at any point is followed by a re-read of the
\* configuration that starts after it, unless the worker is terminated first;
\* the handling clears got_sighup, stays in the iteration, and leaves the slots,
\* the descriptors and the listener alone.
C11_ReloadFollowsSignal ==
    /\ hup_unserved ~> (~hup_unserved \/ (pc = "exited" /\ exitwhy \in MeantExits))
    /\ []((pc = "exited" /\ hup_unserved) => exitwhy \in MeantExits)
    /\ [][(pc = "sighup_clear" /\ pc' # pc) => (~got_sighup' /\ pc' = "reload")]_vars
    /\ [][(pc \in {"sighup_test", "sighup_clear", "reload"})
            => /\ UNCHANGED <<connectlist, socket_listener, fdtab>>
               /\ pc' \notin {"loop_test", "exited"}]_vars

\* What a client reads in a response: where a piece of text starts, the number
\* in the Content-Length header, the body after the blank line.
IndexOf(sub, seq) ==
    LET at == {k \in 1 .. (Len(seq) - Len(sub) + 1) :
                   SubSeq(seq, k, k + Len(sub) - 1) = sub}
    IN IF at = {} THEN 0 ELSE CHOOSE k \in at : \A m \in at : k <= m

DigitValue(ch) == CHOOSE d \in 0 .. 9 : Digit(d) = ch

RECURSIVE ParseInt(_)
ParseInt(digits) ==
    IF digits = <<>> THEN 0
    ELSE ParseInt(SubSeq(digits, 1, Len(digits) - 1)) * 10
             + DigitValue(digits[Len(digits)])

HeaderValue(resp) ==
    ParseInt(SubSeq(resp, IndexOf(HeaderName, resp) + Len(HeaderName),
                    IndexOf(HeaderEnd, resp) - 1))

BodyOf(resp) == SubSeq(resp, IndexOf(HeaderEnd, resp) + Len(HeaderEnd), Len(resp))

LastCopy(data) == SubSeq(data, Len(data) - 50, Len(data))

ConnSends == {k \in TraceIdx : trace[k].op = "send" /\ trace[k].arg \in {"sent", "error"}}

TableMatchesOpen == OpenConns = {connectlist[s] : s \in Occupied}

\* C13: signals may come at any point, but the loop is left only between two
\* iterations (at the test of the while, or at the WaitLatch that opens an
\* iteration), and wherever it is left the table matches the open connections.
C13_LeftOnlyAtBoundary ==
    /\ [][(pc # "exited" /\ pc' = "exited" /\ exitwhy' \notin StartupExits)
            => pc \in {"loop_test", "wait_latch"}]_vars
    /\ []((pc = "exited" /\ exitwhy \notin StartupExits) => TableMatchesOpen)

SlotOps == {"recv", "send", "close"}

\* C14: within an iteration the accept comes before any recv, send or close,
\* and the slots are serviced in increasing index.
C14_AcceptFirstThenSlotOrder ==
    \A j \in TraceIdx, k \in TraceIdx :
        j < k =>
            /\ trace[k].op = "accept" => trace[j].op \notin SlotOps
            /\ (trace[j].op \in SlotOps /\ trace[k].op \in SlotOps
                  /\ trace[j].slot # NoSock /\ trace[k].slot # NoSock)
                 => trace[j].slot <= trace[k].slot

\* An iteration accepted a connection into a slot and then serviced an older
\* connection in a slot of higher index.
C14_Witness ==
    \E j \in TraceIdx, k \in TraceIdx :
        /\ j < k
        /\ trace[k].op = "recv"
        /\ trace[k].arg = "data"
        /\ trace[j].op = "store"
        /\ trace[j].slot < trace[k].slot

\* C15: in the loop a slot becomes occupied only when the store step puts the
\* descriptor just accepted into it, becomes empty only when it is serviced
\* with its descriptor in the set select returned, and does not change
\* otherwise; a slot whose client has sent nothing and has not closed stays
\* as it is.
C15_SlotStateMachine ==
    [][pc \notin {"socket", "bind", "listen", "init"} =>
         \A s \in Slots :
            /\ (connectlist[s] = EmptySlot /\ connectlist'[s] # EmptySlot)
                 => /\ pc = "store"
                    /\ connectlist'[s] = sockfd
                    /\ IsConn(sockfd)
                    /\ trace[Len(trace)].op = "accept"
                    /\ trace[Len(trace)].fd = sockfd
            /\ (connectlist[s] # EmptySlot /\ connectlist'[s] = EmptySlot)
                 => /\ pc = "service"
                    /\ i = s
                    /\ readsocks > 0
                    /\ connectlist[s] \in socks
                    /\ connectlist[s] \in unread
                    /\ fdtab'[connectlist[s]] = "free"
            /\ (connectlist[s] # EmptySlot /\ connectlist'[s] # EmptySlot)
                 => connectlist'[s] = connectlist[s]
            /\ (connectlist[s] # EmptySlot /\ connectlist[s] \notin unread)
                 => connectlist'[s] = connectlist[s]]_vars

\* Every slot is held by a connection, one of them by a client that has sent
\* nothing, and a later client was just turned away.
C15_Witness ==
    /\ pc = "iter_end"
    /\ Logged("server too busy")
    /\ Occupied = Slots
    /\ \E s \in Slots : IsConn(connectlist[s]) /\ connectlist[s] \notin unread

\* C16: between two iterations the open accepted connections are exactly the
\* descriptors in the occupied slots, each in one slot only; accept never
\* returns the descriptor that marks an empty slot.
C16_TableIsTheOpenConnections ==
    /\ pc \in {"iter_end", "loop_test"}
         => /\ TableMatchesOpen
            /\ \A s \in Occupied, t \in Occupied :
                   connectlist[s] = connectlist[t] => s = t
    /\ \A k \in TraceIdx :
           (trace[k].op = "accept" /\ trace[k].fd # NoSock) => trace[k].fd # EmptySlot

\* An iteration ends with every slot of the largest table holding its own open
\* connection.
C16_Witness ==
    /\ pc = "iter_end"
    /\ pg_httpd_max_sockets = MaxSockets
    /\ Occupied = Slots
    /\ Cardinality(OpenConns) = MaxSockets
    /\ \E k \in TraceIdx : trace[k].op = "store"

\* C17: when a slot is empty, the store step puts the accepted descriptor into
\* the empty slot of lowest index and leaves every other slot as it was.
C17_LowestEmptySlot ==
    [][(pc = "store" /\ pc' # pc /\ Occupied # Slots)
          => \E s \in Slots :
                /\ connectlist[s] = EmptySlot
                /\ \A t \in Slots : t < s => connectlist[t] # EmptySlot
                /\ connectlist'[s] = sockfd
                /\ \A t \in Slots : t # s => connectlist'[t] = connectlist[t]
                /\ fdtab' = fdtab]_vars

\* The descriptor went into slot 0 while slot 1 was empty too.
C17_Witness ==
    /\ pc = "service"
    /\ Len(trace) > 0
    /\ trace[Len(trace)].op = "store"
    /\ trace[Len(trace)].slot = 0
    /\ IsConn(connectlist[0])
    /\ \E t \in Slots : t > 0 /\ connectlist[t] = EmptySlot

\* The calls of accept, and the busy rejections, of the current iteration.
AcceptCalls == {k \in TraceIdx : trace[k].op = "accept"}
BusyRejections ==
    {k \in TraceIdx : trace[k].op = "elog_WARNING" /\ trace[k].arg = "server too busy"}

\* C18: an iteration calls accept at most once and rejects at most one
\* connection as busy; a step of the worker takes at most one connection off
\* the listener's queue, only by the iteration's single accept, and the others
\* stay queued.
C18_OneAcceptPerIteration ==
    /\ [](Cardinality(AcceptCalls) <= 1 /\ Cardinality(BusyRejections) <= 1)
    /\ [][(pc' # pc \/ i' # i \/ trace' # trace)
            => \/ backlog' = backlog
               \/ /\ backlog' = backlog - 1
                  /\ pc = "dispatch"
                  /\ AcceptCalls = {}
                  /\ Len(trace') > Len(trace)
                  /\ trace'[Len(trace) + 1].op = "accept"]_vars

\* An iteration has accepted a connection and rejected it as busy, and
\* another connection still waits on the listener.
C18_Witness ==
    /\ pc = "iter_end"
    /\ \E k \in AcceptCalls : trace[k].fd # NoSock
    /\ BusyRejections # {}
    /\ backlog > 0

\* The slots filled, and the slots read from, in the current iteration.
StoreEvents == {k \in TraceIdx : trace[k].op = "store"}
RecvEvents == {k \in TraceIdx : trace[k].op = "recv"}

\* C19: a connection stored in a slot is not read from, answered or closed in
\* the iteration that accepted it, and it still fills its slot when that
\* iteration ends; only descriptors that select reported ready are read from;
\* an iteration stores at most one connection.
C19_StoredIsServicedLater ==
    /\ Cardinality(StoreEvents) <= 1
    /\ \A k \in RecvEvents : trace[k].fd \in socks
    /\ \A k \in StoreEvents :
          /\ trace[k].fd \notin socks
          /\ \A m \in TraceIdx :
                 (m > k /\ trace[m].op \in {"recv", "send", "close"})
                     => (trace[m].fd # trace[k].fd /\ trace[m].slot # trace[k].slot)
          /\ pc \in {"service", "iter_end"}
                 => (connectlist[trace[k].slot] = trace[k].fd /\ IsConn(trace[k].fd))

\* An iteration stored a connection whose request had arrived already and
\* read from another slot; it ends with the new connection unanswered.
C19_Witness ==
    /\ pc = "iter_end"
    /\ RecvEvents # {}
    /\ \E k \in StoreEvents :
          /\ trace[k].fd \in unread
          /\ connectlist[trace[k].slot] = trace[k].fd

\* The calls made for a slot in the current iteration.
SlotCalls == {k \in TraceIdx : trace[k].slot # NoSock
                                  /\ trace[k].op \in {"recv", "send", "close"}}

\* C20: no recv, send or close is made for a slot that holds the empty
\* marker, none of the send and close calls is on the listener's descriptor,
\* and the listener stays open while the loop runs, whatever descriptor
\* socket() returned.
C20_EmptySlotsAndListenerUntouched ==
    /\ \A k \in SlotCalls : trace[k].fd # EmptySlot
    /\ \A k \in TraceIdx :
           trace[k].op \in {"send", "close"} => trace[k].fd # socket_listener
    /\ pc \in {"loop_test", "wait_latch", "sighup_test", "sighup_clear", "reload",
               "build", "select", "dispatch", "store", "service", "iter_end"}
           => (socket_listener \in Fds /\ fdtab[socket_listener] = "listener")

====
